---------------------------- MODULE Spec2Model ----------------------------
(***************************************************************************)
(* Model of zegami_sdk/trained_model/mrcnn_trained_model.py: the loader    *)
(* MrcnnTrainedModel (constructor, load_config, load_model), the part of   *)
(* the file system it reads, the sys.modules entry it writes and the calls *)
(* it makes on the external MaskRCNN library.                              *)
(*                                                                         *)
(* Python strings are sequences of one-character strings, so that          *)
(* str.format, os.path.join, os.path.split and glob are computed on the    *)
(* characters as the library computes them.                                *)
(***************************************************************************)
EXTENDS Naturals, Sequences, FiniteSets

(***************************************************************************)
(* Bounds of the model.                                                    *)
(***************************************************************************)
\* number of top-level calls (constructor or direct method call) in a run
MaxCalls == 3

(***************************************************************************)
(* Strings.                                                                *)
(***************************************************************************)
Sep == "/"

\* 'inference_config.py'
ConfigFileName ==
    <<"i","n","f","e","r","e","n","c","e","_","c","o","n","f","i","g",".","p","y">>

\* the text '**/*.h5' that follows the '{}' of the format string
WeightsSuffix == <<"*","*","/","*",".","h","5">>

Last(s) == s[Len(s)]

Front(s) == SubSeq(s, 1, Len(s) - 1)

\* index of the last separator of s, 0 when there is none (str.rfind + 1)
RECURSIVE LastSep(_)
LastSep(s) ==
    IF s = <<>> THEN 0
    ELSE IF Last(s) = Sep THEN Len(s)
    ELSE LastSep(Front(s))

\* str.rstrip('/')
RECURSIVE RStripSep(_)
RStripSep(s) ==
    IF s /= <<>> /\ Last(s) = Sep THEN RStripSep(Front(s)) ELSE s

\* posixpath.join(a, b)
PathJoin(a, b) ==
    IF b /= <<>> /\ Head(b) = Sep THEN b
    ELSE IF a = <<>> \/ Last(a) = Sep THEN a \o b
    ELSE a \o <<Sep>> \o b

\* posixpath.split(p): <<head, tail>>
PathSplit(p) ==
    LET i    == LastSep(p)
        head == SubSeq(p, 1, i)
        tail == SubSeq(p, i + 1, Len(p))
    IN  <<IF RStripSep(head) = <<>> THEN head ELSE RStripSep(head), tail>>

\* the components of a path string, empty components dropped
RECURSIVE Components(_)
Components(p) ==
    IF p = <<>> THEN <<>>
    ELSE LET i    == LastSep(p)
             tail == SubSeq(p, i + 1, Len(p))
             rest == Components(RStripSep(SubSeq(p, 1, i)))
         IN  IF tail = <<>> THEN rest ELSE Append(rest, tail)

(***************************************************************************)
(* The file system: the set of regular files below the working directory,  *)
(* each a sequence of components; a directory exists when a file lies      *)
(* below it.                                                               *)
(***************************************************************************)
DirM   == <<"m">>
DirM2  == <<"m","2">>
DirS   == <<"s">>
FileA  == <<"a",".","h","5">>
FileB  == <<"b",".","h","5">>

FileUniverse ==
    { <<DirM, ConfigFileName>>,
      <<DirM, FileA>>,
      <<DirM, FileB>>,
      <<DirM, DirS, FileB>>,
      <<DirM2, FileA>> }

\* the values of save_path the model constructs loaders with: 'm', 'm/', 'm2/'
SavePaths == { DirM, DirM \o <<Sep>>, DirM2 \o <<Sep>> }

IsPrefix(d, f) == Len(d) < Len(f) /\ SubSeq(f, 1, Len(d)) = d

FsIsDir(files, p) == \E f \in files : IsPrefix(Components(p), f)

FsIsFile(files, p) == Components(p) \in files

\* os.path.exists / os.path.lexists
FsExists(files, p) == FsIsFile(files, p) \/ FsIsDir(files, p)

\* the names os.scandir gives for a directory ('' is the working directory)
FsListDir(files, p, dironly) ==
    LET d == Components(p)
    IN  { f[Len(d) + 1] : f \in { g \in files : /\ IsPrefix(d, g)
                                                /\ dironly => Len(g) > Len(d) + 1 } }

(***************************************************************************)
(* glob.glob(pattern, recursive=True)                                      *)
(***************************************************************************)
MagicChars == {"*", "?", "["}

HasMagic(s) == \E i \in 1..Len(s) : s[i] \in MagicChars

IsRecursive(pattern) == pattern = <<"*","*">>

IsHidden(name) == name /= <<>> /\ Head(name) = "."

\* fnmatch.fnmatchcase(name, pat) for patterns of literals, '*' and '?'
RECURSIVE FnMatch(_, _)
FnMatch(name, pat) ==
    IF pat = <<>> THEN name = <<>>
    ELSE IF Head(pat) = "*"
         THEN \/ FnMatch(name, Tail(pat))
              \/ name /= <<>> /\ FnMatch(Tail(name), pat)
    ELSE IF Head(pat) = "?"
         THEN name /= <<>> /\ FnMatch(Tail(name), Tail(pat))
    ELSE name /= <<>> /\ Head(name) = Head(pat) /\ FnMatch(Tail(name), Tail(pat))

\* glob._glob1
Glob1(files, dirname, pattern, dironly) ==
    { n \in FsListDir(files, dirname, dironly) :
        /\ IsHidden(pattern) \/ ~IsHidden(n)
        /\ FnMatch(n, pattern) }

\* glob._glob0
Glob0(files, dirname, basename, dironly) ==
    IF basename = <<>>
    THEN IF FsIsDir(files, dirname) THEN {basename} ELSE {}
    ELSE IF FsExists(files, PathJoin(dirname, basename)) THEN {basename} ELSE {}

\* glob._rlistdir
RECURSIVE RListDir(_, _, _)
RListDir(files, dirname, dironly) ==
    LET names == { n \in FsListDir(files, dirname, dironly) : ~IsHidden(n) }
    IN  names \cup
        UNION { { PathJoin(x, y) : y \in RListDir(files, PathJoin(dirname, x), dironly) }
                : x \in names }

\* glob._glob2
Glob2(files, dirname, pattern, dironly) ==
    (IF dirname = <<>> \/ FsIsDir(files, dirname) THEN {<<>>} ELSE {})
        \cup RListDir(files, dirname, dironly)

GlobInDir(files, dirname, basename, dironly) ==
    IF HasMagic(basename)
    THEN IF IsRecursive(basename)
         THEN Glob2(files, dirname, basename, dironly)
         ELSE Glob1(files, dirname, basename, dironly)
    ELSE Glob0(files, dirname, basename, dironly)

\* glob._iglob with recursive=True: the set of path strings it yields
RECURSIVE IGlob(_, _, _)
IGlob(files, pathname, dironly) ==
    LET dirname  == PathSplit(pathname)[1]
        basename == PathSplit(pathname)[2]
    IN  IF ~HasMagic(pathname)
        THEN IF basename /= <<>>
             THEN IF FsExists(files, pathname) THEN {pathname} ELSE {}
             ELSE IF FsIsDir(files, dirname) THEN {pathname} ELSE {}
        ELSE IF dirname = <<>>
        THEN IF IsRecursive(basename)
             THEN Glob2(files, dirname, basename, dironly)
             ELSE Glob1(files, dirname, basename, dironly)
        ELSE LET dirs == IF dirname /= pathname /\ HasMagic(dirname)
                         THEN IGlob(files, dirname, TRUE)
                         ELSE {dirname}
             IN  UNION { { PathJoin(d, n) : n \in GlobInDir(files, d, basename, dironly) }
                         : d \in dirs }


\* the directory part of a result, as components
ResultDir(p) == Components(PathSplit(p)[1])

\* glob.glob(pattern, recursive=True) as a list.  os.scandir gives the entries
\* of a directory in no specified order; what glob fixes is that the matches of
\* one directory are contiguous and that a directory is visited before the
\* directories below it.
GlobResults(files, pattern) ==
    LET found == IGlob(files, pattern, FALSE)
        n     == Cardinality(found)
    IN  { s \in [1..n -> found] :
            /\ \A i, j \in 1..n : i /= j => s[i] /= s[j]
            /\ \A i, j \in 1..n :
                 IsPrefix(ResultDir(s[i]), ResultDir(s[j])) => i < j
            /\ \A i, j, k \in 1..n :
                 i < j /\ j < k /\ ResultDir(s[i]) = ResultDir(s[k])
                 => ResultDir(s[j]) = ResultDir(s[i]) }

(***************************************************************************)
(* Python values.                                                          *)
(***************************************************************************)
\* an attribute or local that has not been assigned
Unset == [kind |-> "unset", id |-> 0]

PyNone == [kind |-> "None", id |-> 0]

\* a reference to the object created as number n
Ref(n) == [kind |-> "object", id |-> n]

IsObject(v) == v.kind = "object"

\* bool(v) of the values a keyword argument takes in the model
Truthy(v) == v \notin {"False", "None", "0"}

ExclusionKey == "use_mrcnn_exclusion"

NoKwargs == [k \in {} |-> "None"]

\* the **kwargs the model constructs loaders with
KwargsChoices ==
    {NoKwargs} \cup { [k \in {ExclusionKey} |-> v] : v \in {"True", "False", "0"} }

\* dict.get(key, default)
DictGet(d, key, default) == IF key \in DOMAIN d THEN d[key] ELSE default

\* the layers excluded when loading untouched external weights
MrcnnHeads ==
    <<"mrcnn_class_logits", "mrcnn_bbox_fc", "mrcnn_bbox", "mrcnn_mask", "rpn_model">>

(***************************************************************************)
(* State.                                                                  *)
(***************************************************************************)
VARIABLES
    fs,              \* the files on disk
    sysModules,      \* sys.modules['inference_config'] (Unset: no such key)
    nextId,          \* number of the next object created
    calls,           \* top-level calls made so far
    save_path,       \* self.save_path (<<>> before the base constructor set it)
    kwargs,          \* self.kwargs
    config,          \* self.config
    model,           \* self.model
    call,            \* the top-level call: "none", "__init__", "load_config", "load_model"
    pc,              \* position in the code of the running call, "idle" when none runs
    result,          \* "none", "running", "returned", "raised"
    exc,             \* the exception a raised call ended with
    raisedAt,        \* the operation that raised it
    inference_config,\* local of load_config: the module object
    candidates,      \* local of load_model
    wfp,             \* local of load_model
    mrcnn_exclusion, \* local of load_model
    lmodel,          \* local `model` of load_model
    retval,          \* value returned by the method that last returned
    trace            \* the method entries, external calls and sys.modules
                     \* writes of the top-level call, in order

vars == <<fs, sysModules, nextId, calls, save_path, kwargs, config, model, call,
          pc, result, exc, raisedAt, inference_config, candidates, wfp,
          mrcnn_exclusion, lmodel, retval, trace>>

process == <<fs, sysModules>>

fields == <<save_path, kwargs, config, model>>

outcome == <<result, exc, raisedAt>>

lcLocals == <<inference_config>>

lmLocals == <<candidates, wfp, mrcnn_exclusion, lmodel>>

\* an entry of trace
Event(op, ok, obj, cfg, path, excl) ==
    [op |-> op, ok |-> ok, obj |-> obj, cfg |-> cfg, path |-> path, excl |-> excl]

Entry(method) == Event(method, TRUE, Unset, Unset, <<>>, <<>>)

ModelOps == {"MaskRCNN", "load_weights", "compile"}

Init ==
    /\ fs \in SUBSET FileUniverse
    /\ sysModules = Unset
    /\ nextId = 1
    /\ calls = 0
    /\ save_path = <<>>
    /\ kwargs = NoKwargs
    /\ config = Unset
    /\ model = Unset
    /\ call = "none"
    /\ pc = "idle"
    /\ result = "none"
    /\ exc = "none"
    /\ raisedAt = "none"
    /\ inference_config = Unset
    /\ candidates = <<>>
    /\ wfp = <<>>
    /\ mrcnn_exclusion = <<>>
    /\ lmodel = Unset
    /\ retval = Unset
    /\ trace = <<>>

\* `raise`: no handler exists in the file, so the top-level call ends
Raise(e, at) ==
    /\ result' = "raised"
    /\ exc' = e
    /\ raisedAt' = at
    /\ pc' = "idle"

\* a top-level call returns
Finish ==
    /\ pc' = "idle"
    /\ result' = "returned"
    /\ UNCHANGED <<exc, raisedAt>>

ResetLocals ==
    /\ inference_config' = Unset
    /\ candidates' = <<>>
    /\ wfp' = <<>>
    /\ mrcnn_exclusion' = <<>>
    /\ lmodel' = Unset
    /\ retval' = Unset

(***************************************************************************)
(* The statements of the two methods, in the order of the text.            *)
(***************************************************************************)
\* mutation: the module is registered before the file check
LoadConfigStepsRegisterFirst ==
    <<"lc_register", "lc_check", "lc_exec", "lc_instantiate", "lc_return">>

LoadConfigSteps ==
    <<"lc_check", "lc_register", "lc_exec", "lc_instantiate", "lc_return">>

\* mutation: the model is constructed before the weights are looked for
LoadModelStepsConstructFirst ==
    <<"lm_construct", "lm_glob", "lm_exclusion", "lm_load_weights", "lm_rates",
      "lm_compile", "lm_assign">>

\* mutation: the model is compiled before its weights are loaded
LoadModelStepsCompileFirst ==
    <<"lm_glob", "lm_exclusion", "lm_construct", "lm_rates", "lm_compile",
      "lm_load_weights", "lm_assign">>

LoadModelSteps ==
    <<"lm_glob", "lm_exclusion", "lm_construct", "lm_load_weights", "lm_rates",
      "lm_compile", "lm_assign">>

\* the statement that follows statement p
StepAfter(steps, p) == steps[(CHOOSE i \in 1..Len(steps) : steps[i] = p) + 1]

\* mutation: the exception of the call is caught and the method goes on
ExternalSwallowed(ok, ev, next) ==
    /\ trace' = Append(trace, ev)
    /\ pc' = next
    /\ UNCHANGED outcome

\* a call of code outside this file, at a statement that no try block
\* encloses: it returns and the next statement runs, or its exception leaves
\* the method
External(ok, ev, next) ==
    /\ trace' = Append(trace, ev)
    /\ IF ok
       THEN pc' = next /\ UNCHANGED outcome
       ELSE Raise("ExternalError", ev.op)

(***************************************************************************)
(* MrcnnTrainedModel.__init__ and the direct calls of the two methods.     *)
(***************************************************************************)
\* MrcnnTrainedModel(sp, **kw) up to line 32: a new object, initialised by the
\* base class, whose checks either raise or leave save_path and kwargs set
New(sp, kw) ==
    /\ pc = "idle"
    /\ calls < MaxCalls
    /\ calls' = calls + 1
    /\ call' = "__init__"
    /\ config' = Unset
    /\ model' = Unset
    /\ trace' = <<>>
    /\ ResetLocals
    /\ \E ok \in BOOLEAN :
         IF ok
         THEN /\ save_path' = sp
              /\ kwargs' = kw
              /\ result' = "running"
              /\ exc' = "none"
              /\ raisedAt' = "none"
              /\ pc' = "init_35"
         ELSE /\ save_path' = <<>>
              /\ kwargs' = NoKwargs
              /\ Raise("BaseError", "TrainedModel.__init__")
    /\ UNCHANGED <<process, nextId>>

\* line 35, the call: self.load_config()
InitCallLoadConfig ==
    /\ pc = "init_35"
    /\ pc' = Head(LoadConfigSteps)
    /\ trace' = Append(trace, Entry("load_config"))
    /\ UNCHANGED <<process, nextId, calls, fields, call, outcome, lcLocals,
                   lmLocals, retval>>

\* line 36, the call: self.load_model()
InitCallLoadModel ==
    /\ pc = "init_36"
    /\ pc' = Head(LoadModelSteps)
    /\ trace' = Append(trace, Entry("load_model"))
    /\ UNCHANGED <<process, nextId, calls, fields, call, outcome, lcLocals,
                   lmLocals, retval>>

\* a client that holds a base-initialised loader calls one of its public
\* methods itself (a subclass constructor, or a caller that kept the object
\* of a constructor that raised)
Direct(method, entryPc) ==
    /\ pc = "idle"
    /\ save_path /= <<>>
    /\ calls < MaxCalls
    /\ calls' = calls + 1
    /\ call' = method
    /\ pc' = entryPc
    /\ result' = "running"
    /\ exc' = "none"
    /\ raisedAt' = "none"
    /\ trace' = <<Entry(method)>>
    /\ ResetLocals
    /\ UNCHANGED <<process, nextId, fields>>

DirectLoadConfig == Direct("load_config", Head(LoadConfigSteps))

DirectLoadModel == Direct("load_model", Head(LoadModelSteps))

(***************************************************************************)
(* load_config                                                             *)
(***************************************************************************)
\* line 46
ConfigPath(sp) == PathJoin(sp, ConfigFileName)

\* lines 46-49
LcCheck ==
    /\ pc = "lc_check"
    /\ IF ~FsExists(fs, ConfigPath(save_path))
       THEN Raise("FileNotFoundError", "load_config")
       ELSE pc' = StepAfter(LoadConfigSteps, "lc_check") /\ UNCHANGED outcome
    /\ UNCHANGED <<process, nextId, calls, fields, call, lcLocals, lmLocals,
                   retval, trace>>

\* mutation: a module that is already registered is used again
NewModuleCached(n, registered) == IF IsObject(registered) THEN registered ELSE Ref(n)

\* lines 52-53: module_from_spec creates a new module object, whatever
\* sys.modules already holds
NewModule(n, registered) == Ref(n)

\* lines 52-54
LcRegister ==
    /\ pc = "lc_register"
    /\ inference_config' = NewModule(nextId, sysModules)
    /\ nextId' = nextId + 1
    /\ sysModules' = inference_config'
    /\ trace' = Append(trace, Event("sys.modules", TRUE, inference_config',
                                    Unset, <<>>, <<>>))
    /\ pc' = StepAfter(LoadConfigSteps, "lc_register")
    /\ UNCHANGED <<fs, calls, fields, call, outcome, lmLocals, retval>>

\* line 55: the code of the configuration file runs, and may raise
LcExec ==
    /\ pc = "lc_exec"
    /\ \E ok \in BOOLEAN :
         External(ok,
                  Event("exec_module", ok, inference_config, Unset,
                        ConfigPath(save_path), <<>>),
                  StepAfter(LoadConfigSteps, "lc_exec"))
    /\ UNCHANGED <<process, nextId, calls, fields, call, lcLocals, lmLocals, retval>>

\* line 58: self.config = inference_config.InferenceConfig()
LcInstantiate ==
    /\ pc = "lc_instantiate"
    /\ \E ok \in BOOLEAN :
         /\ External(ok,
                     Event("InferenceConfig", ok, IF ok THEN Ref(nextId) ELSE Unset,
                           Unset, <<>>, <<>>),
                     StepAfter(LoadConfigSteps, "lc_instantiate"))
         /\ IF ok
            THEN config' = Ref(nextId) /\ nextId' = nextId + 1
            ELSE UNCHANGED <<config, nextId>>
    /\ UNCHANGED <<process, calls, save_path, kwargs, model, call, lcLocals,
                   lmLocals, retval>>

\* lines 60-63 and the end of the function body: there is no return
\* statement, so the call evaluates to None.  Called from line 35, that value
\* is assigned: self.config = self.load_config()
LcReturn ==
    /\ pc = "lc_return"
    /\ retval' = PyNone
    /\ IF call = "__init__"
       THEN config' = retval' /\ pc' = "init_36" /\ UNCHANGED outcome
       ELSE Finish /\ UNCHANGED config
    /\ UNCHANGED <<process, nextId, calls, save_path, kwargs, model, call,
                   lcLocals, lmLocals, trace>>

(***************************************************************************)
(* load_model                                                              *)
(***************************************************************************)
\* line 76: '{}**/*.h5'.format(self.save_path)
WeightsPattern(sp) == sp \o WeightsSuffix

\* mutation: the first match is used
ChooseWeightsFirst(cs) == cs[1]

\* lines 81-86
ChooseWeights(cs) == IF Len(cs) > 1 THEN cs[Len(cs)] ELSE cs[1]

\* lines 75-87
LmGlob ==
    /\ pc = "lm_glob"
    /\ \E cs \in GlobResults(fs, WeightsPattern(save_path)) :
         /\ candidates' = cs
         /\ IF Len(cs) = 0
            THEN Raise("FileNotFoundError", "load_model") /\ UNCHANGED wfp
            ELSE /\ wfp' = ChooseWeights(cs)
                 /\ pc' = StepAfter(LoadModelSteps, "lm_glob")
                 /\ UNCHANGED outcome
    /\ UNCHANGED <<process, nextId, calls, fields, call, lcLocals,
                   mrcnn_exclusion, lmodel, retval, trace>>

\* mutation: the exclusion is on unless the keyword turns it off
UseExclusionDefaultTrue(kw) == DictGet(kw, ExclusionKey, "True")

\* line 91
UseExclusion(kw) == DictGet(kw, ExclusionKey, "False")

\* lines 90-95
Exclusion(kw) == IF Truthy(UseExclusion(kw)) THEN MrcnnHeads ELSE <<>>

\* lines 89-96
LmExclusion ==
    /\ pc = "lm_exclusion"
    /\ mrcnn_exclusion' = Exclusion(kwargs)
    /\ pc' = StepAfter(LoadModelSteps, "lm_exclusion")
    /\ UNCHANGED <<process, nextId, calls, fields, call, outcome, lcLocals,
                   candidates, wfp, lmodel, retval, trace>>

\* lines 98-100: model = MaskRCNN('inference', self.config, '.'); reading an
\* attribute that was never assigned raises AttributeError
LmConstruct ==
    /\ pc = "lm_construct"
    /\ IF config = Unset
       THEN /\ Raise("AttributeError", "self.config")
            /\ UNCHANGED <<lmodel, nextId, trace>>
       ELSE \E ok \in BOOLEAN :
              /\ External(ok,
                          Event("MaskRCNN", ok, IF ok THEN Ref(nextId) ELSE Unset,
                                config, <<>>, <<>>),
                          StepAfter(LoadModelSteps, "lm_construct"))
              /\ IF ok
                 THEN lmodel' = Ref(nextId) /\ nextId' = nextId + 1
                 ELSE UNCHANGED <<lmodel, nextId>>
    /\ UNCHANGED <<process, calls, fields, call, lcLocals, candidates, wfp,
                   mrcnn_exclusion, retval>>

\* lines 102-103: model.load_weights(wfp, by_name=True, exclusion=mrcnn_exclusion)
LmLoadWeights ==
    /\ pc = "lm_load_weights"
    /\ \E ok \in BOOLEAN :
         External(ok,
                  Event("load_weights", ok, lmodel, Unset, wfp, mrcnn_exclusion),
                  StepAfter(LoadModelSteps, "lm_load_weights"))
    /\ UNCHANGED <<process, nextId, calls, fields, call, lcLocals, lmLocals, retval>>

\* lines 105-107: self.config.LEARNING_RATE and self.config.LEARNING_MOMENTUM;
\* None has neither attribute, and a configuration class may lack them
LmRates ==
    /\ pc = "lm_rates"
    /\ \E has \in BOOLEAN :
         IF IsObject(config) /\ has
         THEN pc' = StepAfter(LoadModelSteps, "lm_rates") /\ UNCHANGED outcome
         ELSE Raise("AttributeError", "self.config.LEARNING_RATE")
    /\ UNCHANGED <<process, nextId, calls, fields, call, lcLocals, lmLocals,
                   retval, trace>>

\* line 108: model.compile(lr, lm)
LmCompile ==
    /\ pc = "lm_compile"
    /\ \E ok \in BOOLEAN :
         External(ok,
                  Event("compile", ok, lmodel, config, <<>>, <<>>),
                  StepAfter(LoadModelSteps, "lm_compile"))
    /\ UNCHANGED <<process, nextId, calls, fields, call, lcLocals, lmLocals, retval>>

\* line 110 and the end of the function body: self.model = model, and the
\* call evaluates to None.  Called from line 36, that value is assigned:
\* self.model = self.load_model(), which ends the constructor
LmAssign ==
    /\ pc = "lm_assign"
    /\ retval' = PyNone
    /\ model' = IF call = "__init__" THEN retval' ELSE lmodel
    /\ Finish
    /\ UNCHANGED <<process, nextId, calls, save_path, kwargs, config, call,
                   lcLocals, lmLocals, trace>>

(***************************************************************************)
(* The specification.                                                      *)
(***************************************************************************)
Next ==
    \/ \E sp \in SavePaths, kw \in KwargsChoices : New(sp, kw)
    \/ InitCallLoadConfig
    \/ InitCallLoadModel
    \/ DirectLoadConfig
    \/ DirectLoadModel
    \/ LcCheck
    \/ LcRegister
    \/ LcExec
    \/ LcInstantiate
    \/ LcReturn
    \/ LmGlob
    \/ LmExclusion
    \/ LmConstruct
    \/ LmLoadWeights
    \/ LmRates
    \/ LmCompile
    \/ LmAssign

Spec == Init /\ [][Next]_vars

(***************************************************************************)
(* Properties.                                                             *)
(***************************************************************************)
TraceIndex == 1..Len(trace)

HasEvent(op) == \E i \in TraceIndex : trace[i].op = op

\* the calls made on the MaskRCNN library in the running call, in order
ModelCalls == SelectSeq(trace, LAMBDA e : e.op \in ModelOps)

\* the top-level call has ended, by return or by exception
Terminated == pc = "idle" /\ result \in {"returned", "raised"}

\* load_model has evaluated its glob in the running call
GlobDone ==
    \/ pc \in {"lm_exclusion", "lm_construct", "lm_load_weights", "lm_rates",
               "lm_compile", "lm_assign"}
    \/ result = "raised" /\ raisedAt = "load_model"

H5Suffix == <<".", "h", "5">>

EndsWith(s, suf) ==
    /\ Len(suf) <= Len(s)
    /\ SubSeq(s, Len(s) - Len(suf) + 1, Len(s)) = suf

\* the path string of a sequence of components
RECURSIVE PathString(_)
PathString(cs) ==
    IF cs = <<>> THEN <<>>
    ELSE IF Len(cs) = 1 THEN cs[1]
    ELSE PathString(Front(cs)) \o <<Sep>> \o Last(cs)

\* the path strings of the .h5 files at any depth below the directory sp names
WeightsBelow(sp) ==
    { PathString(f) : f \in { g \in fs : /\ IsPrefix(Components(sp), g)
                                          /\ EndsWith(Last(g), H5Suffix) } }

\* C1: when the configuration file is present, the weights search has a
\* candidate and no call of outside code raised, the constructor returns with
\* self.config the InferenceConfig instance and self.model the model handle,
\* neither being None.
C1_InitYieldsConfigAndModel ==
    ( /\ call = "__init__"
      /\ Terminated
      /\ exc \notin {"BaseError", "ExternalError"}
      /\ FsExists(fs, ConfigPath(save_path))
      /\ IGlob(fs, WeightsPattern(save_path), FALSE) /= {} )
    => /\ result = "returned"
       /\ IsObject(config)
       /\ IsObject(model)

\* C2: a load_config that raised FileNotFoundError did nothing after being
\* entered: nothing registered in sys.modules, no configuration code run or
\* instantiated, self.config not assigned and, in the constructor, load_model
\* not invoked.
C2_MissingConfigRaisesFirst ==
    /\ ( /\ result = "raised"
         /\ exc = "FileNotFoundError"
         /\ raisedAt = "load_config" )
       => /\ ~FsExists(fs, ConfigPath(save_path))
          /\ Last(trace) = Entry("load_config")
          /\ \A i \in TraceIndex :
               trace[i].op \notin {"sys.modules", "exec_module", "InferenceConfig",
                                   "load_model"}
          /\ call = "__init__" => config = Unset /\ model = Unset
    /\ ( /\ HasEvent("load_config")
         /\ ~HasEvent("load_model")
         /\ ~FsExists(fs, ConfigPath(save_path))
         /\ pc /= "lc_check" )
       => result = "raised" /\ exc = "FileNotFoundError" /\ raisedAt = "load_config"

C2_Witness ==
    /\ call = "__init__"
    /\ result = "raised"
    /\ exc = "FileNotFoundError"
    /\ raisedAt = "load_config"
    /\ IsObject(sysModules)

\* C3: a load_model whose search found no candidate raised FileNotFoundError
\* with no MaskRCNN constructed, no load_weights, no compile and self.model
\* not assigned.
C3_NoWeightsRaisesBeforeModel ==
    /\ ( /\ result = "raised"
         /\ exc = "FileNotFoundError"
         /\ raisedAt = "load_model" )
       => /\ candidates = <<>>
          /\ Last(trace) = Entry("load_model")
          /\ ModelCalls = <<>>
          /\ lmodel = Unset
          /\ call = "__init__" => model = Unset
    /\ ( /\ HasEvent("load_model")
         /\ IGlob(fs, WeightsPattern(save_path), FALSE) = {}
         /\ pc /= "lm_glob" )
       => result = "raised" /\ exc = "FileNotFoundError" /\ raisedAt = "load_model"

C3_Witness ==
    /\ result = "raised"
    /\ exc = "FileNotFoundError"
    /\ raisedAt = "load_model"
    /\ fs /= {}

\* C4: once load_model has evaluated its glob for a save_path that names a
\* directory, the candidates are exactly the .h5 files at any depth below that
\* directory, whether or not save_path ends with a separator.
C4_CandidatesAreRecursiveH5 ==
    (GlobDone /\ FsIsDir(fs, save_path)) =>
        { candidates[i] : i \in 1..Len(candidates) } = WeightsBelow(save_path)

\* C5: the file given to load_weights is the last element of the candidate
\* list, and load_weights is called at most once in a call.
C5_LoadsLastCandidate ==
    /\ \A i \in TraceIndex :
         trace[i].op = "load_weights"
         => /\ candidates /= <<>>
            /\ trace[i].path = candidates[Len(candidates)]
    /\ Cardinality({ i \in TraceIndex : trace[i].op = "load_weights" }) <= 1

C5_Witness ==
    /\ Len(candidates) >= 3
    /\ \E i \in TraceIndex : trace[i].op = "load_weights" /\ trace[i].ok

C7_ExternalFailurePropagates ==
    \A i \in TraceIndex :
        ~trace[i].ok
        => /\ i = Len(trace)
           /\ pc = "idle"
           /\ result = "raised"
           /\ exc = "ExternalError"
           /\ raisedAt = trace[i].op
           /\ ~(IsObject(lmodel) /\ model = lmodel)
           /\ call = "__init__" => model = Unset

C7_Witness ==
    /\ call = "__init__"
    /\ \E i \in TraceIndex : trace[i].op = "load_weights" /\ ~trace[i].ok

\* C8: whenever the constructor reaches the MaskRCNN construction, self.config
\* is the InferenceConfig instance its load_config call created.
C8_ConstructUsesLoadedConfig ==
    (call = "__init__" /\ pc = "lm_construct")
    => /\ IsObject(config)
       /\ \E i \in TraceIndex :
            trace[i].op = "InferenceConfig" /\ trace[i].obj = config

\* C9: in a load_model call the library is called in the order MaskRCNN,
\* load_weights, compile, each at most once and on the handle MaskRCNN
\* returned, and self.model holds that handle only after compile returned.
C9_ConstructLoadCompileOrder ==
    LET order == <<"MaskRCNN", "load_weights", "compile">>
    IN  /\ Len(ModelCalls) <= Len(order)
        /\ \A i \in 1..Len(ModelCalls) :
             /\ i <= Len(order)
             /\ ModelCalls[i].op = order[i]
             /\ i > 1 => /\ ModelCalls[i - 1].ok
                         /\ IsObject(ModelCalls[i].obj)
                         /\ ModelCalls[i].obj = ModelCalls[1].obj
        /\ (IsObject(lmodel) /\ model = lmodel)
           => /\ Len(ModelCalls) = Len(order)
              /\ ModelCalls[Len(order)].ok
              /\ ModelCalls[Len(order)].obj = model

C9_Witness ==
    /\ IsObject(lmodel)
    /\ model = lmodel
    /\ HasEvent("compile")

\* C10: the exclusion list given to load_weights is the five heads exactly
\* when the keyword use_mrcnn_exclusion is present and truthy and is empty
\* otherwise; the weights file is the one the candidates alone determine.
C10_ExclusionFollowsKwarg ==
    \A i \in TraceIndex :
        trace[i].op = "load_weights"
        => /\ (ExclusionKey \in DOMAIN kwargs /\ Truthy(kwargs[ExclusionKey]))
              => trace[i].excl = <<"mrcnn_class_logits", "mrcnn_bbox_fc",
                                   "mrcnn_bbox", "mrcnn_mask", "rpn_model">>
           /\ ~(ExclusionKey \in DOMAIN kwargs /\ Truthy(kwargs[ExclusionKey]))
              => trace[i].excl = <<>>
           /\ trace[i].path \in { candidates[j] : j \in 1..Len(candidates) }

C10_Witness ==
    /\ \E i \in TraceIndex : trace[i].op = "load_weights" /\ trace[i].excl /= <<>>
    /\ kwargs = [k \in {ExclusionKey} |-> "True"]

=============================================================================
